---- MODULE Spec2Model ----
(***************************************************************************)
(* The device/alert state store of dashboard/dashboard.py: two JSON        *)
(* documents (data/network.json, data/alerts.json), the helpers that load  *)
(* and rewrite them, update_device_status, push_fake_alert and the page     *)
(* handlers that call them.                                                 *)
(*                                                                         *)
(* A document on disk is a record                                           *)
(*   kind  : "absent"    the path does not exist                            *)
(*           "corrupt"   the text is not JSON (json.loads raises)           *)
(*           "nonobject" the text is JSON but not an object (no .get)       *)
(*           "object"    the text is a JSON object                          *)
(*   has   : the object carries the list key ("devices" / "alerts")        *)
(*   items : the list under that key                                        *)
(*   extra : the object carries other top-level keys                        *)
(*   canon : the text is exactly json.dumps(obj, indent=2)                  *)
(* The medium is taken to be writable: path.write_text does not fail.       *)
(***************************************************************************)
EXTENDS Integers, Sequences, FiniteSets, TLC

VARIABLES
    netDoc,     \* data/network.json
    alertDoc,   \* data/alerts.json
    last,       \* the last call made and what it returned
    generated,  \* how many synthetic alerts have been generated
    sess        \* the script runs of the browser sessions (SpecSessions)

vars == <<netDoc, alertDoc, last, generated, sess>>

----------------------------------------------------------------------------
(* Bounds of the model *)

MaxDevices == 2
MaxAlerts  == 1

(* Values *)

None == "None"

QuarantineVlan == 99
IotVlan == 40

Names    == {"Bulb", "Cam"}
Ghost    == "nonexistent"
Statuses == {"Safe", "Suspicious", "Quarantined"}
Vlans    == {IotVlan, QuarantineVlan}

(* new_vlan=None is <<>>, new_vlan=v is <<v>> *)
OptVlans == {<<>>} \cup {<<v>> : v \in Vlans}

IpOf(name) == IF name = "Bulb" THEN "10.0.40.5" ELSE "10.0.40.6"

AlertTypes == {"Port Scan", "Malware Beacon", "Unauthorized Access", "Brute Force"}
Severities == {"Low", "Medium", "High"}
Outcomes   == {"Blocked", "Detected"}
Timestamps == {"2026-01-01 10:00:00"}

----------------------------------------------------------------------------
(* Documents *)

Absent    == [kind |-> "absent",    has |-> FALSE, items |-> <<>>, extra |-> FALSE, canon |-> FALSE]
Corrupt   == [kind |-> "corrupt",   has |-> FALSE, items |-> <<>>, extra |-> FALSE, canon |-> FALSE]
NonObject == [kind |-> "nonobject", has |-> FALSE, items |-> <<>>, extra |-> FALSE, canon |-> FALSE]

ObjectDoc(has, items, extra, canon) ==
    [kind |-> "object", has |-> has, items |-> items, extra |-> extra, canon |-> canon]

(* the fallback argument {"devices": []} / {"alerts": []} *)
Fallback == [type |-> "object", has |-> TRUE, items |-> <<>>]

(* load_json without its try/except: the parse error reaches the caller   *)
load_json_NoTry(doc, fallback) ==
    IF doc.kind = "absent" THEN [raised |-> FALSE, data |-> fallback]
    ELSE IF doc.kind = "corrupt" THEN [raised |-> TRUE, data |-> fallback]
    ELSE IF doc.kind = "nonobject" THEN [raised |-> FALSE, data |-> [type |-> "other", has |-> FALSE, items |-> <<>>]]
    ELSE [raised |-> FALSE, data |-> [type |-> "object", has |-> doc.has, items |-> doc.items]]

(* load_json(path, fallback): the parsed value, or the fallback when the   *)
(* path is absent or json.loads raises                                     *)
load_json(doc, fallback) ==
    IF doc.kind = "absent" THEN [raised |-> FALSE, data |-> fallback]
    ELSE IF doc.kind = "corrupt" THEN [raised |-> FALSE, data |-> fallback]
    ELSE IF doc.kind = "nonobject" THEN [raised |-> FALSE, data |-> [type |-> "other", has |-> FALSE, items |-> <<>>]]
    ELSE [raised |-> FALSE, data |-> [type |-> "object", has |-> doc.has, items |-> doc.items]]

(* data.get(key, []): AttributeError on a value that is no object *)
GetKey(r) ==
    IF r.raised THEN [raised |-> TRUE, value |-> <<>>]
    ELSE IF r.data.type # "object" THEN [raised |-> TRUE, value |-> <<>>]
    ELSE IF r.data.has THEN [raised |-> FALSE, value |-> r.data.items]
    ELSE [raised |-> FALSE, value |-> <<>>]

(* save_json(path, data): the whole file replaced by json.dumps(data, indent=2) *)
save_json(old, items) == ObjectDoc(TRUE, items, FALSE, TRUE)

get_devices(doc) == GetKey(load_json(doc, Fallback))
save_devices(old, devices) == save_json(old, devices)
get_alerts(doc) == GetKey(load_json(doc, Fallback))
save_alerts(old, alerts) == save_json(old, alerts)

----------------------------------------------------------------------------
(* Devices *)

Device(n, v, s) == [name |-> n, ip |-> IpOf(n), vlan |-> v, status |-> s]

DeviceSeeds == {Device(n, v, s) : n \in Names, v \in Vlans, s \in Statuses}

SeqsUpTo(S, n) == UNION {[1..k -> S] : k \in 0..n}

(* the vlan assignment of lines 115-116 left out *)
SetFields_StatusOnly(d, new_status, new_vlan) == [d EXCEPT !.status = new_status]

(* lines 114-116: the new status and, when new_vlan is given, the new vlan *)
SetFields(d, new_status, new_vlan) ==
    [d EXCEPT !.status = new_status,
              !.vlan = IF new_vlan = <<>> THEN @ ELSE new_vlan[1]]

(* a break after the first match *)
ApplyStatus_FirstOnly(devices, name, new_status, new_vlan) ==
    [i \in DOMAIN devices |->
        IF devices[i].name = name /\ \A j \in 1..(i - 1) : devices[j].name # name
        THEN SetFields(devices[i], new_status, new_vlan)
        ELSE devices[i]]

(* a record added when no device matches *)
ApplyStatus_Upsert(devices, name, new_status, new_vlan) ==
    IF \E i \in DOMAIN devices : devices[i].name = name
    THEN [i \in DOMAIN devices |->
             IF devices[i].name = name
             THEN SetFields(devices[i], new_status, new_vlan)
             ELSE devices[i]]
    ELSE Append(devices, [name |-> name, ip |-> None,
                          vlan |-> IF new_vlan = <<>> THEN IotVlan ELSE new_vlan[1],
                          status |-> new_status])

(* the updated record appended instead of changed in place *)
ApplyStatus_AppendCopy(devices, name, new_status, new_vlan) ==
    devices \o SelectSeq([i \in DOMAIN devices |-> SetFields(devices[i], new_status, new_vlan)],
                         LAMBDA d : d.name = name)

(* the matching records dropped from the list that is saved *)
ApplyStatus_DropMatch(devices, name, new_status, new_vlan) ==
    SelectSeq(devices, LAMBDA d : d.name # name)

(* the loop of update_device_status: every device whose name matches is   *)
(* changed, in place                                                        *)
ApplyStatus(devices, name, new_status, new_vlan) ==
    [i \in DOMAIN devices |->
        IF devices[i].name = name
        THEN SetFields(devices[i], new_status, new_vlan)
        ELSE devices[i]]

NoCall == [op |-> "none", by |-> None, name |-> None, status |-> None, vlan |-> <<>>,
           raised |-> FALSE, rep |-> FALSE, result |-> <<>>]

(* update_device_status(name, new_status, new_vlan=None) *)
update_device_status(name, new_status, new_vlan) ==
    LET r == get_devices(netDoc) IN
    /\ netDoc' = IF r.raised THEN netDoc
                 ELSE save_devices(netDoc, ApplyStatus(r.value, name, new_status, new_vlan))
    /\ last' = [NoCall EXCEPT !.op = "update", !.name = name, !.status = new_status,
                              !.vlan = new_vlan, !.raised = r.raised,
                              !.rep = /\ last.op = "update"
                                      /\ last.name = name
                                      /\ last.status = new_status
                                      /\ last.vlan = new_vlan]
    /\ UNCHANGED <<alertDoc, generated, sess>>

(* devices = get_devices() *)
GetDevices ==
    LET r == get_devices(netDoc) IN
    /\ last' = [NoCall EXCEPT !.op = "get_devices", !.raised = r.raised, !.result = r.value]
    /\ UNCHANGED <<netDoc, alertDoc, generated, sess>>

(* alerts = get_alerts() *)
GetAlerts ==
    LET r == get_alerts(alertDoc) IN
    /\ last' = [NoCall EXCEPT !.op = "get_alerts", !.raised = r.raised, !.result = r.value]
    /\ UNCHANGED <<netDoc, alertDoc, generated, sess>>

----------------------------------------------------------------------------
(* Alerts *)

Alert(ts, d, type, severity, outcome) ==
    [timestamp |-> ts, device |-> d.name, ip |-> d.ip, type |-> type,
     severity |-> severity, vlan |-> d.vlan, status |-> outcome]

(* suspects = [d for d in devices if d.get("status") != "Safe"] *)
Suspects(devices) == SelectSeq(devices, LAMBDA d : d.status # "Safe")

(* the sequence random.choice draws from: suspects if suspects else devices *)
Candidates(devices) ==
    IF Suspects(devices) # <<>> THEN Suspects(devices) ELSE devices

(* alerts.insert(0, new_alert) *)
AppendAlert_Front(alerts, new_alert) == <<new_alert>> \o alerts

(* alerts.append(new_alert) *)
AppendAlert(alerts, new_alert) == Append(alerts, new_alert)

(* push_fake_alert(devices) *)
push_fake_alert(devices) ==
    IF devices = <<>>
    THEN /\ last' = [NoCall EXCEPT !.op = "push"]
         /\ UNCHANGED <<netDoc, alertDoc, generated, sess>>
    ELSE \E i \in DOMAIN Candidates(devices), ts \in Timestamps, type \in AlertTypes,
            severity \in Severities, outcome \in Outcomes :
            LET new_alert == Alert(ts, Candidates(devices)[i], type, severity, outcome)
                r == get_alerts(alertDoc)
            IN  /\ generated < MaxAlerts
                /\ alertDoc' = IF r.raised THEN alertDoc
                               ELSE save_alerts(alertDoc, AppendAlert(r.value, new_alert))
                /\ generated' = IF r.raised THEN generated ELSE generated + 1
                /\ last' = [NoCall EXCEPT !.op = "push", !.raised = r.raised,
                                          !.result = <<new_alert>>]
                /\ UNCHANGED <<netDoc, sess>>

(* a script run with page == "Alerts": lines 132-133, then line 218 *)
AlertsPage ==
    LET devices == get_devices(netDoc)
        alerts == get_alerts(alertDoc)
    IN  IF devices.raised \/ alerts.raised
        THEN /\ last' = [NoCall EXCEPT !.op = "push", !.raised = TRUE]
             /\ UNCHANGED <<netDoc, alertDoc, generated, sess>>
        ELSE push_fake_alert(devices.value)

----------------------------------------------------------------------------
(* Page handlers. A script run first loads both documents (lines 132-133); *)
(* when either load raises, the run ends there and no button is handled.    *)

PageLoaded == ~get_devices(netDoc).raised /\ ~get_alerts(alertDoc).raised

Shown == get_devices(netDoc).value

(* Devices page: "Mark Safe" *)
MarkSafe ==
    /\ PageLoaded
    /\ \E i \in DOMAIN Shown : update_device_status(Shown[i].name, "Safe", <<>>)

(* Devices page: "Block" *)
Block ==
    /\ PageLoaded
    /\ \E i \in DOMAIN Shown : update_device_status(Shown[i].name, "Suspicious", <<>>)

(* "Quarantine" without new_vlan=99 *)
Quarantine_NoVlan ==
    /\ PageLoaded
    /\ \E i \in DOMAIN Shown : update_device_status(Shown[i].name, "Quarantined", <<>>)

(* Devices page: "Quarantine" *)
Quarantine ==
    /\ PageLoaded
    /\ \E i \in DOMAIN Shown :
          update_device_status(Shown[i].name, "Quarantined", <<QuarantineVlan>>)

(* Quarantine Center: "Release", offered for the quarantined devices *)
Release ==
    /\ PageLoaded
    /\ \E i \in DOMAIN Shown :
          /\ Shown[i].status = "Quarantined"
          /\ update_device_status(Shown[i].name, "Safe", <<IotVlan>>)

----------------------------------------------------------------------------
(* Who drives the store: sess = Direct when the functions are called        *)
(* directly, with any argument; otherwise sess holds the script runs of     *)
(* the dashboard's sessions.                                                *)

Sessions == {"tab1", "tab2"}

Direct == << >>

Idle == [pc |-> "idle", op |-> "none", name |-> None, status |-> None, vlan |-> <<>>,
         devices |-> <<>>, alerts |-> <<>>, stale |-> FALSE]

NoRuns == [s \in Sessions |-> Idle]

DeviceDocs(seqs) ==
    {Absent, Corrupt, NonObject, ObjectDoc(FALSE, <<>>, FALSE, TRUE), ObjectDoc(FALSE, <<>>, TRUE, FALSE)}
    \cup {ObjectDoc(TRUE, d, FALSE, TRUE) : d \in seqs}
    \cup {ObjectDoc(TRUE, d, TRUE, FALSE) : d \in seqs}

(* update_device_status called with any name, status and vlan *)
Update ==
    /\ sess = Direct
    /\ \E name \in Names \cup {Ghost}, new_status \in Statuses, new_vlan \in OptVlans :
          update_device_status(name, new_status, new_vlan)

----------------------------------------------------------------------------
(* The dashboard's status buttons on a device document that follows the    *)
(* quarantine convention                                                    *)

FollowsConvention(devices) ==
    \A i \in DOMAIN devices :
        devices[i].status = "Quarantined" => devices[i].vlan = QuarantineVlan

ConventionSeeds == {d \in DeviceSeeds : d.status = "Quarantined" => d.vlan = QuarantineVlan}

InitUI ==
    /\ netDoc \in DeviceDocs(SeqsUpTo(ConventionSeeds, MaxDevices))
    /\ alertDoc = Absent
    /\ last = NoCall
    /\ generated = 0
    /\ sess = NoRuns

NextUI == MarkSafe \/ Block \/ Quarantine \/ Release \/ GetDevices

SpecUI == InitUI /\ [][NextUI]_vars

----------------------------------------------------------------------------
(* The store. Either the functions are called directly on any device       *)
(* document of at most MaxDevices devices, or the dashboard runs on a       *)
(* seeded home: its Alerts page, the Devices page's "Mark Safe" and        *)
(* "Block", and the loads.                                                  *)

Home == <<Device("Bulb", IotVlan, "Safe"), Device("Cam", IotVlan, "Safe")>>

Unlabelled == <<Device("Bulb", IotVlan, None)>>

SeedAlert == Alert("2025-12-31 23:59:59", Device("Cam", IotVlan, "Suspicious"),
                   "Port Scan", "Low", "Blocked")

InitDirect ==
    /\ netDoc \in DeviceDocs(SeqsUpTo(DeviceSeeds, MaxDevices))
    /\ alertDoc = Absent
    /\ sess = Direct

InitPages ==
    /\ netDoc \in {Absent, Corrupt, NonObject, ObjectDoc(TRUE, Home, FALSE, TRUE),
                   ObjectDoc(TRUE, Unlabelled, TRUE, FALSE)}
    /\ alertDoc \in {Absent, Corrupt, NonObject, ObjectDoc(TRUE, <<SeedAlert>>, TRUE, FALSE)}
    /\ sess = NoRuns

Init ==
    /\ InitDirect \/ InitPages
    /\ last = NoCall
    /\ generated = 0

OnDashboard(page) == sess = NoRuns /\ page

Next ==
    \/ Update
    \/ GetDevices
    \/ GetAlerts
    \/ OnDashboard(AlertsPage)
    \/ OnDashboard(MarkSafe)
    \/ OnDashboard(Block)

Spec == Init /\ [][Next]_vars

----------------------------------------------------------------------------
(* Two browser sessions, one script run each. A run is a thread of its own *)
(* and takes no lock: its steps are the reads and the writes of the         *)
(* documents, each read and each write taken as one step.                   *)
(*   pc: idle -> r111 -> w117 -> done      a status button                  *)
(*       idle -> r105 -> w107 -> done      the Alerts page                  *)
(* stale: another run has rewritten the document since this run read it.    *)

Buttons == {<<"Safe", <<>>>>, <<"Suspicious", <<>>>>,
            <<"Quarantined", <<QuarantineVlan>>>>, <<"Safe", <<IotVlan>>>>}

(* lines 132-133, then a button of the page is found pressed *)
StartButton(t) ==
    /\ sess[t].pc = "idle"
    /\ PageLoaded
    /\ \E i \in DOMAIN Shown, b \in Buttons :
          /\ b = <<"Safe", <<IotVlan>>>> => Shown[i].status = "Quarantined"
          /\ sess' = [sess EXCEPT ![t] = [Idle EXCEPT !.pc = "r111", !.op = "update",
                                                     !.name = Shown[i].name,
                                                     !.status = b[1], !.vlan = b[2]]]
    /\ UNCHANGED <<netDoc, alertDoc, last, generated>>

(* line 111: devices = get_devices() *)
Read111(t) ==
    /\ sess[t].pc = "r111"
    /\ sess' = [sess EXCEPT ![t].pc = "w117", ![t].devices = get_devices(netDoc).value,
                            ![t].stale = FALSE]
    /\ UNCHANGED <<netDoc, alertDoc, last, generated>>

(* the loop run on the document as it is at the time of the write *)
Write117_Fresh(t) ==
    /\ sess[t].pc = "w117"
    /\ netDoc' = save_devices(netDoc, ApplyStatus(get_devices(netDoc).value, sess[t].name,
                                                  sess[t].status, sess[t].vlan))
    /\ sess' = [u \in Sessions |->
                   IF u = t THEN [sess[u] EXCEPT !.pc = "done"]
                   ELSE IF sess[u].pc = "w117" THEN [sess[u] EXCEPT !.stale = TRUE]
                   ELSE sess[u]]
    /\ last' = [NoCall EXCEPT !.op = "update", !.by = t]
    /\ UNCHANGED <<alertDoc, generated>>

(* lines 112-117: the loop on the copy read at line 111, then save_devices *)
Write117(t) ==
    /\ sess[t].pc = "w117"
    /\ netDoc' = save_devices(netDoc, ApplyStatus(sess[t].devices, sess[t].name,
                                                  sess[t].status, sess[t].vlan))
    /\ sess' = [u \in Sessions |->
                   IF u = t THEN [sess[u] EXCEPT !.pc = "done"]
                   ELSE IF sess[u].pc = "w117" THEN [sess[u] EXCEPT !.stale = TRUE]
                   ELSE sess[u]]
    /\ last' = [NoCall EXCEPT !.op = "update", !.by = t]
    /\ UNCHANGED <<alertDoc, generated>>

(* lines 132-133 with page == "Alerts", then push_fake_alert(devices) up   *)
(* to line 104; the run ends at line 93 when devices is empty               *)
StartAlerts(t) ==
    /\ sess[t].pc = "idle"
    /\ PageLoaded
    /\ sess' = [sess EXCEPT ![t] = [Idle EXCEPT !.pc = IF Shown = <<>> THEN "done" ELSE "r105",
                                               !.op = "push", !.devices = Shown]]
    /\ UNCHANGED <<netDoc, alertDoc, last, generated>>

(* line 105: alerts = get_alerts() *)
Read105(t) ==
    /\ sess[t].pc = "r105"
    /\ ~get_alerts(alertDoc).raised
    /\ sess' = [sess EXCEPT ![t].pc = "w107", ![t].alerts = get_alerts(alertDoc).value,
                            ![t].stale = FALSE]
    /\ UNCHANGED <<netDoc, alertDoc, last, generated>>

(* lines 106-107: append to the copy read at line 105, then save_alerts.   *)
(* The draws of lines 95-103 do not depend on the store, so they are taken  *)
(* here, from the devices read at line 132.                                 *)
Write107(t) ==
    /\ sess[t].pc = "w107"
    /\ \E i \in DOMAIN Candidates(sess[t].devices), ts \in Timestamps, type \in AlertTypes,
          severity \in Severities, outcome \in Outcomes :
          LET new_alert == Alert(ts, Candidates(sess[t].devices)[i], type, severity, outcome)
          IN  /\ alertDoc' = save_alerts(alertDoc, AppendAlert(sess[t].alerts, new_alert))
              /\ last' = [NoCall EXCEPT !.op = "push", !.by = t, !.result = <<new_alert>>]
    /\ sess' = [u \in Sessions |->
                   IF u = t THEN [sess[u] EXCEPT !.pc = "done"]
                   ELSE IF sess[u].pc = "w107" THEN [sess[u] EXCEPT !.stale = TRUE]
                   ELSE sess[u]]
    /\ UNCHANGED <<netDoc, generated>>

InitSessions ==
    /\ netDoc = ObjectDoc(TRUE, Home, FALSE, TRUE)
    /\ alertDoc \in {Absent, ObjectDoc(TRUE, <<SeedAlert>>, FALSE, TRUE)}
    /\ last = NoCall
    /\ generated = 0
    /\ sess = NoRuns

NextSessions ==
    \E t \in Sessions :
        \/ StartButton(t)
        \/ Read111(t)
        \/ Write117(t)
        \/ StartAlerts(t)
        \/ Read105(t)
        \/ Write107(t)

SpecSessions == InitSessions /\ [][NextSessions]_vars

----------------------------------------------------------------------------
(* What the claims are stated over *)

Stored(doc) == get_devices(doc).value

Logged(doc) == get_alerts(doc).value

IsPrefix(a, b) == Len(a) <= Len(b) /\ \A i \in DOMAIN a : a[i] = b[i]

Matches(devices, name) == {i \in DOMAIN devices : devices[i].name = name}

(* the step is a call of update_device_status that returned *)
Updated == last'.op = "update" /\ ~last'.raised

----------------------------------------------------------------------------
(* C1: from a device document in which every Quarantined device has vlan   *)
(* 99, after any sequence of Mark Safe, Block, Quarantine and Release on    *)
(* any devices, every stored Quarantined device has vlan 99. (SpecUI)       *)
C1_QuarantineConvention == FollowsConvention(netDoc.items)

(* Quarantine has acted on a device, which is stored Quarantined on vlan 99 *)
C1_Witness ==
    /\ last.op = "update" /\ last.status = "Quarantined" /\ ~last.raised
    /\ \E i \in DOMAIN netDoc.items :
          /\ netDoc.items[i].name = last.name
          /\ netDoc.items[i].status = "Quarantined"
          /\ netDoc.items[i].vlan = QuarantineVlan

(* C2 as stated: when several stored devices share the name passed to      *)
(* update_device_status, the first of them gets the new status and vlan and *)
(* every later one is left unchanged.                                       *)
C2_OnlyFirstUpdated ==
    [][Updated =>
          /\ DOMAIN Stored(netDoc') = DOMAIN Stored(netDoc)
          /\ \A i \in Matches(Stored(netDoc), last'.name) :
                IF \E j \in Matches(Stored(netDoc), last'.name) : j < i
                THEN Stored(netDoc')[i] = Stored(netDoc)[i]
                ELSE Stored(netDoc')[i].status = last'.status]_vars

(* C2 amended: every stored device with the name passed to                 *)
(* update_device_status gets the new status and, when a vlan is given, the  *)
(* new vlan, the later ones as well as the first.                           *)
C2_EveryMatchUpdated ==
    [][Updated =>
          /\ DOMAIN Stored(netDoc') = DOMAIN Stored(netDoc)
          /\ \A i \in Matches(Stored(netDoc), last'.name) :
                /\ Stored(netDoc')[i].status = last'.status
                /\ last'.vlan # <<>> => Stored(netDoc')[i].vlan = last'.vlan[1]]_vars

(* an update with a vlan has acted on a name two stored devices share, and *)
(* both carry the new status and vlan                                       *)
C2_Witness ==
    /\ last.op = "update" /\ ~last.raised /\ last.vlan # <<>>
    /\ \E i, j \in Matches(Stored(netDoc), last.name) :
          /\ i < j
          /\ Stored(netDoc)[i].status = last.status
          /\ Stored(netDoc)[j].status = last.status
          /\ Stored(netDoc)[i].vlan = last.vlan[1]
          /\ Stored(netDoc)[j].vlan = last.vlan[1]

(* the call names no stored device, on a document that is present with     *)
(* devices, present and empty, absent or unparseable                        *)
UnknownName ==
    /\ last'.op = "update"
    /\ netDoc.kind # "nonobject"
    /\ Matches(netDoc.items, last'.name) = {}

(* C3 as stated: for a name that matches no stored device,                 *)
(* update_device_status raises nothing and leaves the persisted device      *)
(* document exactly as it was, whatever state the document was in.          *)
C3_DocumentUntouched ==
    [][UnknownName => ~last'.raised /\ netDoc' = netDoc]_vars

(* C3 amended: for a name that matches no stored device,                   *)
(* update_device_status raises nothing and leaves the device collection     *)
(* that get_devices returns exactly as it was; the document itself is       *)
(* rewritten as {"devices": <that collection>}.                             *)
C3_CollectionUntouched ==
    [][UnknownName =>
          /\ ~last'.raised
          /\ ~get_devices(netDoc').raised
          /\ Stored(netDoc') = Stored(netDoc)
          /\ netDoc' = ObjectDoc(TRUE, Stored(netDoc), FALSE, TRUE)]_vars

(* an update for a name that is not stored has acted on a document that    *)
(* holds devices                                                            *)
C3_Witness ==
    /\ last.op = "update" /\ ~last.raised
    /\ Stored(netDoc) # <<>>
    /\ Matches(Stored(netDoc), last.name) = {}

(* C4: the alert log is append-only: over every step (the Alerts page's    *)
(* push_fake_alert, update_device_status, the loads) the persisted alert    *)
(* sequence before the step is a prefix of the one after it.                *)
C4_AppendOnly == [][IsPrefix(Logged(alertDoc), Logged(alertDoc'))]_vars

(* a synthetic alert has been appended behind the alert the log held       *)
C4_Witness ==
    /\ last.op = "push" /\ ~last.raised /\ last.result # <<>>
    /\ Logged(alertDoc) = <<SeedAlert, last.result[1]>>

(* C5 as stated: push_fake_alert always produces one alert; its source is  *)
(* a device whose status is not Safe when there is one, else some device    *)
(* of the collection, and the placeholder "Unknown Device" when the         *)
(* collection is empty.                                                     *)
FromDevice(a, d) == a.device = d.name /\ a.ip = d.ip /\ a.vlan = d.vlan

C5_SourceRule ==
    [][(last'.op = "push" /\ ~last'.raised) =>
          /\ Len(Logged(alertDoc')) = Len(Logged(alertDoc)) + 1
          /\ LET a == Logged(alertDoc')[Len(Logged(alertDoc'))]
                 devices == Stored(netDoc)
             IN  IF \E i \in DOMAIN devices : devices[i].status # "Safe"
                 THEN \E i \in DOMAIN devices :
                         devices[i].status # "Safe" /\ FromDevice(a, devices[i])
                 ELSE IF devices # <<>>
                 THEN \E i \in DOMAIN devices : FromDevice(a, devices[i])
                 ELSE a.device = "Unknown Device"]_vars

(* C6: for a stored device name n, a status s and a vlan v, get_devices    *)
(* right after update_device_status(n, s, v) returns, for n, a record with  *)
(* status s and vlan v and with name and ip as before.                      *)
C6_ReadAfterWrite ==
    [][(Updated /\ last'.vlan # <<>> /\ Matches(Stored(netDoc), last'.name) # {}) =>
          /\ ~get_devices(netDoc').raised
          /\ DOMAIN Stored(netDoc') = DOMAIN Stored(netDoc)
          /\ \A i \in Matches(Stored(netDoc), last'.name) :
                Stored(netDoc')[i] = [name |-> last'.name, ip |-> Stored(netDoc)[i].ip,
                                      vlan |-> last'.vlan[1], status |-> last'.status]]_vars

(* update_device_status(n, "Quarantined", 99) has acted on the stored Bulb *)
C6_Witness ==
    /\ last.op = "update" /\ ~last.raised
    /\ last.name = "Bulb" /\ last.status = "Quarantined" /\ last.vlan = <<QuarantineVlan>>
    /\ \E i \in DOMAIN Stored(netDoc) :
          Stored(netDoc)[i] = [name |-> "Bulb", ip |-> IpOf("Bulb"),
                               vlan |-> QuarantineVlan, status |-> "Quarantined"]

(* C7: when the device document or the alert document is absent or does    *)
(* not parse, get_devices / get_alerts returns an empty sequence and raises *)
(* nothing.                                                                 *)
C7_LoadFailsSoft ==
    /\ (last.op = "get_devices" /\ netDoc.kind \in {"absent", "corrupt"})
          => (~last.raised /\ last.result = <<>>)
    /\ (last.op = "get_alerts" /\ alertDoc.kind \in {"absent", "corrupt"})
          => (~last.raised /\ last.result = <<>>)

(* get_devices has returned on a device document that does not parse      *)
C7_Witness == last.op = "get_devices" /\ netDoc.kind = "corrupt" /\ ~last.raised

(* C8: update_device_status called again with the same name, status and    *)
(* vlan leaves the persisted device document as the first call left it.     *)
C8_Idempotent == [][(last'.op = "update" /\ last'.rep) => netDoc' = netDoc]_vars

(* the same call has been made twice in a row on a device that is stored   *)
C8_Witness ==
    /\ last.op = "update" /\ last.rep /\ ~last.raised
    /\ Matches(Stored(netDoc), last.name) # {}

(* C10: update_device_status(n, s, v) on a loadable document keeps the     *)
(* number and order of the devices and every name and ip, keeps the status  *)
(* and vlan of every device whose name is not n, and keeps the matched      *)
(* device's vlan when v is omitted; and no step, a status update or the     *)
(* Alerts page's push_fake_alert, removes a device from the document.       *)
C10_Frame ==
    [][LET before == Stored(netDoc)
           after == Stored(netDoc')
       IN  /\ Updated =>
                 /\ DOMAIN after = DOMAIN before
                 /\ \A i \in DOMAIN before :
                       /\ after[i].name = before[i].name
                       /\ after[i].ip = before[i].ip
                       /\ before[i].name # last'.name => after[i] = before[i]
                       /\ last'.vlan = <<>> => after[i].vlan = before[i].vlan
           /\ Len(after) >= Len(before)
           /\ \A i \in DOMAIN before : after[i].name = before[i].name]_vars

(* a status update without a vlan has acted on one of two stored devices   *)
(* and an alert has since been generated                                    *)
C10_Witness ==
    /\ last.op = "push" /\ ~last.raised /\ last.result # <<>>
    /\ Len(Stored(netDoc)) = 2
    /\ Stored(netDoc)[1].status = "Suspicious"
    /\ Stored(netDoc)[2].status = "Safe"

(* C9: two sessions interleaving their reads and writes: the persisted     *)
(* document is what the last writer saved, its own update applied to the    *)
(* copy it read, and an update the other session wrote in between, a        *)
(* status change to another device or an appended alert, is lost.           *)
C9_LastWriterWins ==
    \A t \in Sessions :
       /\ (last.by = t /\ last.op = "update") =>
             /\ netDoc.kind = "object"
             /\ DOMAIN netDoc.items = DOMAIN sess[t].devices
             /\ \A i \in DOMAIN netDoc.items :
                   IF sess[t].devices[i].name = sess[t].name
                   THEN /\ netDoc.items[i].status = sess[t].status
                        /\ netDoc.items[i].vlan =
                              IF sess[t].vlan = <<>> THEN sess[t].devices[i].vlan
                              ELSE sess[t].vlan[1]
                   ELSE netDoc.items[i] = sess[t].devices[i]
       /\ (last.by = t /\ last.op = "push") =>
             /\ alertDoc.kind = "object"
             /\ alertDoc.items = Append(sess[t].alerts, last.result[1])
             /\ sess[t].stale => Len(alertDoc.items) = Len(sess[t].alerts) + 1

(* tab2 wrote last from a copy read before tab1's write, and tab1's status  *)
(* change to another device is not in the document                          *)
C9_Witness ==
    /\ last.by = "tab2" /\ last.op = "update" /\ sess["tab2"].stale
    /\ sess["tab1"].pc = "done" /\ sess["tab1"].op = "update"
    /\ sess["tab1"].name # sess["tab2"].name
    /\ \E i \in Matches(netDoc.items, sess["tab1"].name) :
          netDoc.items[i].status # sess["tab1"].status

====
